---- MODULE Spec2Model ----
(***************************************************************************)
(* A model of lifelines' KaplanMeierFitter                                 *)
(* (src/lifelines/fitters/kaplan_meier_fitter.py).                         *)
(*                                                                         *)
(* Numbers.  Counts, weights and probabilities are exact rationals <<n,d>> *)
(* (d > 0, lowest terms).  A floating point value is a record [k, v]: k is *)
(* "fin" (the rational v), "log" (the natural logarithm of the rational    *)
(* v > 0, so that a sum of logarithms is the logarithm of a product),      *)
(* "nan", "pinf" or "ninf".  The IEEE-754 special values are computed as   *)
(* numpy computes them; rounding of finite values is not modelled.         *)
(***************************************************************************)
EXTENDS Integers, Sequences, FiniteSets, TLC

\* ------------------------------------------------------------------ bounds
\* the largest number of subjects of a data set
MaxSubjects == 3
\* entry and exit times range over 0..MaxTime
MaxTime == 4
\* the largest number of fit calls on one instance
MaxFits == 2
\* the largest population handed to a contribution function called directly
MaxPop == 3

\* ------------------------------------------------------------ rationals
Abs(x) == IF x < 0 THEN -x ELSE x

RECURSIVE GCD(_, _)
GCD(a, b) == IF b = 0 THEN a ELSE GCD(b, a % b)

\* the rational n/d (d # 0) in lowest terms with a positive denominator
Rat(n, d) ==
    LET g == GCD(Abs(n), Abs(d))
        s == IF d < 0 THEN -1 ELSE 1
    IN  << (s * n) \div g, Abs(d) \div g >>

RInt(i) == << i, 1 >>
RZero == << 0, 1 >>
ROne == << 1, 1 >>
RAdd(a, b) == Rat(a[1] * b[2] + b[1] * a[2], a[2] * b[2])
RSub(a, b) == Rat(a[1] * b[2] - b[1] * a[2], a[2] * b[2])
RMul(a, b) == Rat(a[1] * b[1], a[2] * b[2])
RDiv(a, b) == Rat(a[1] * b[2], a[2] * b[1])
RLeq(a, b) == a[1] * b[2] <= b[1] * a[2]
RLt(a, b) == a[1] * b[2] < b[1] * a[2]
RIsInt(a) == a[2] = 1
\* astype(int): truncation toward zero
RTrunc(a) == IF a[1] >= 0 THEN RInt(a[1] \div a[2]) ELSE RInt(-((-a[1]) \div a[2]))

\* ------------------------------------------------- floating point values
Fin(q) == [k |-> "fin", v |-> q]
LogOf(q) == [k |-> "log", v |-> q]
NaN == [k |-> "nan", v |-> RZero]
PosInf == [k |-> "pinf", v |-> RZero]
NegInf == [k |-> "ninf", v |-> RZero]

IsNaN(x) == x.k = "nan"

\* np.log of a finite value: log(0) = -inf and log(negative) = nan, both
\* without raising once the error mode is "ignore"
NpLog(x) ==
    CASE x.k = "fin" /\ RLt(RZero, x.v) -> LogOf(x.v)
      [] x.k = "fin" /\ x.v = RZero -> NegInf
      [] x.k = "pinf" -> PosInf
      [] OTHER -> NaN

\* a - b for two values in log space
LogSub(a, b) ==
    CASE a.k = "nan" \/ b.k = "nan" -> NaN
      [] a.k = "log" /\ b.k = "log" -> LogOf(RDiv(a.v, b.v))
      [] a.k = "log" /\ b.k = "ninf" -> PosInf
      [] a.k = "log" /\ b.k = "pinf" -> NegInf
      [] a.k = "ninf" /\ b.k = "ninf" -> NaN
      [] a.k = "pinf" /\ b.k = "pinf" -> NaN
      [] a.k = "ninf" -> NegInf
      [] OTHER -> PosInf

\* a + b for two values in log space
LogAdd(a, b) ==
    CASE a.k = "nan" \/ b.k = "nan" -> NaN
      [] a.k = "log" /\ b.k = "log" -> LogOf(RMul(a.v, b.v))
      [] a.k = "ninf" /\ b.k = "pinf" -> NaN
      [] a.k = "pinf" /\ b.k = "ninf" -> NaN
      [] a.k = "ninf" \/ b.k = "ninf" -> NegInf
      [] OTHER -> PosInf

\* np.exp of a value in log space
NpExp(x) ==
    CASE x.k = "log" -> Fin(x.v)
      [] x.k = "ninf" -> Fin(RZero)
      [] x.k = "pinf" -> PosInf
      [] OTHER -> NaN

\* a + b for two variance values (finite, nan or +inf)
FAdd(a, b) ==
    CASE a.k = "nan" \/ b.k = "nan" -> NaN
      [] a.k = "fin" /\ b.k = "fin" -> Fin(RAdd(a.v, b.v))
      [] a.k = "ninf" /\ b.k = "pinf" -> NaN
      [] a.k = "pinf" /\ b.k = "ninf" -> NaN
      [] a.k = "ninf" \/ b.k = "ninf" -> NegInf
      [] OTHER -> PosInf

\* a / b for two finite rationals, as IEEE-754 division
FDivRat(a, b) ==
    CASE b # RZero -> Fin(RDiv(a, b))
      [] b = RZero /\ a = RZero -> NaN
      [] b = RZero /\ RLt(RZero, a) -> PosInf
      [] OTHER -> NegInf

\* --------------------------------------- process-wide numeric error mode
\* np.geterr() after "import numpy"
DefaultErr == [divide |-> "warn", over |-> "warn", under |-> "ignore", invalid |-> "warn"]
ErrModes == {"ignore", "warn", "raise"}

\* ------------------------------------------ interval contribution functions
\* the operands of the subtraction exchanged
AdditiveFSwapped(population, deaths) ==
    LogSub(NpLog(Fin(population)), NpLog(Fin(RSub(population, deaths))))

\* np.log(population - deaths) - np.log(population)
AdditiveF(population, deaths) ==
    LogSub(NpLog(Fin(RSub(population, deaths))), NpLog(Fin(population)))

\* (1.0 * deaths / (population * (population - deaths))).replace([np.inf], 0)
AdditiveVar(population, deaths) ==
    LET raw == FDivRat(deaths, RMul(population, RSub(population, deaths)))
    IN  IF raw.k = "pinf" THEN Fin(RZero) ELSE raw

\* np.seterr(invalid="ignore", divide="ignore") in _additive_f
SetErrF(e) == [e EXCEPT !.invalid = "ignore", !.divide = "ignore"]
\* np.seterr(divide="ignore") in _additive_var
SetErrVar(e) == [e EXCEPT !.divide = "ignore"]

\* ------------------------------------------------------- optional values
None == << >>
Some(x) == << x >>
IsNone(o) == o = << >>
Val(o) == o[1]

\* ------------------------------------------------------------- sequences
SeqMin(s) == CHOOSE x \in {s[i] : i \in DOMAIN s} : \A j \in DOMAIN s : x <= s[j]
SetMin(S) == CHOOSE x \in S : \A y \in S : x <= y

RECURSIVE SortedSeq(_)
SortedSeq(S) == IF S = {} THEN << >> ELSE << SetMin(S) >> \o SortedSeq(S \ {SetMin(S)})

\* the sum of w[i] over the indices i of w selected by keep
RSumIf(w, keep) ==
    LET s[k \in 0..Len(w)] ==
            IF k = 0 THEN RZero
            ELSE IF k \in keep THEN RAdd(s[k - 1], w[k]) ELSE s[k - 1]
    IN  s[Len(w)]

\* ------------------------------------------------------- input validation
\* a NaN or infinite element of a raw input array
NaNMark == -1

\* check_nans_or_infs(array): TRUE iff it raises
CheckValuesFails(array) == \E i \in DOMAIN array : array[i] = NaNMark

\* (weights.astype(int) != weights).any()
NonIntegerWeights(weights) == \E i \in DOMAIN weights : ~RIsInt(weights[i])

\* ------------------------------------------------------------ event table
\* survival_table_from_events(durations, event_observed, entry, weights):
\* one row per distinct entry or exit time, in increasing order of time.
\* With entry = None every subject enters at min(0, min(durations)).
BirthTimes(durs, ent) ==
    IF IsNone(ent)
    THEN LET m == SeqMin(durs) IN [i \in DOMAIN durs |-> IF m < 0 THEN m ELSE 0]
    ELSE Val(ent)

SubjectWeights(durs, wts) ==
    IF IsNone(wts) THEN [i \in DOMAIN durs |-> ROne] ELSE Val(wts)

SurvivalTable(durs, obs, ent, wts) ==
    LET births == BirthTimes(durs, ent)
        w == SubjectWeights(durs, wts)
        n == Len(durs)
        index == SortedSeq({durs[i] : i \in 1..n} \cup {births[i] : i \in 1..n})
        removedAt(t) == RSumIf(w, {i \in 1..n : durs[i] = t})
        observedAt(t) == RSumIf(w, {i \in 1..n : durs[i] = t /\ obs[i] = 1})
        entranceAt(t) == RSumIf(w, {i \in 1..n : births[i] = t})
        cumEntrance(t) == RSumIf(w, {i \in 1..n : births[i] <= t})
        cumRemovedBefore(t) == RSumIf(w, {i \in 1..n : durs[i] < t})
    IN  [r \in 1..Len(index) |->
            [event_at |-> index[r],
             removed |-> removedAt(index[r]),
             observed |-> observedAt(index[r]),
             censored |-> RTrunc(RSub(removedAt(index[r]), observedAt(index[r]))),
             entrance |-> entranceAt(index[r]),
             at_risk |-> RSub(cumEntrance(index[r]), cumRemovedBefore(index[r]))]]

\* _preprocess_inputs: event_observed defaults to all ones, the timeline to
\* the event table's index
PreprocessInputs(durs, obs, tl, ent, wts) ==
    LET e == IF IsNone(obs) THEN [i \in DOMAIN durs |-> 1] ELSE Val(obs)
        table == SurvivalTable(durs, e, ent, wts)
    IN  [durations |-> durs,
         event_observed |-> e,
         timeline |-> IF IsNone(tl) THEN [r \in DOMAIN table |-> table[r].event_at]
                      ELSE SortedSeq({Val(tl)[i] : i \in DOMAIN Val(tl)}),
         entry |-> ent,
         event_table |-> table]

\* ------------------------------------------------------ additive estimate
\* The population handed to the contribution functions: the at-risk count
\* without the subjects entering at this row, except at the first row.
Population(table, r) ==
    IF r = 1 THEN table[r].at_risk ELSE RSub(table[r].at_risk, table[r].entrance)

\* Under left censorship the table is walked from the latest row back and the
\* population of a row is everyone not removed at a later row.
TotalEntrance(table) ==
    LET s[k \in 0..Len(table)] == IF k = 0 THEN RZero ELSE RAdd(s[k - 1], table[k].entrance)
    IN  s[Len(table)]

ReversePopulation(table, r) ==
    LET s[k \in r..Len(table)] ==
            IF k = Len(table) THEN RZero ELSE RAdd(s[k + 1], table[k + 1].removed)
    IN  RSub(TotalEntrance(table), s[r])

\* the value carried at time t by a series indexed by the table's rows
\* (reindex(timeline, method="pad")): that of the last row at or before t,
\* missing (nan) before the first row
Pad(table, series, t) ==
    LET rows == {r \in DOMAIN table : table[r].event_at <= t}
    IN  IF rows = {} THEN NaN
        ELSE series[CHOOSE r \in rows : \A q \in rows : q <= r]

\* fillna(0) of a log-space value and of a variance
FillLog(x) == IF IsNaN(x) THEN LogOf(ROne) ELSE x
FillVar(x) == IF IsNaN(x) THEN Fin(RZero) ELSE x

\* _additive_estimate(events, timeline, _additive_f, _additive_var, reverse):
\* the running sums of the two contributions, re-indexed on the timeline.
\* The running sum is that of a pandas series: a nan contribution is skipped
\* by the sum and leaves nan at its own row only.
AdditiveEstimate(table, tl, reverse) ==
    LET n == Len(table)
        cF(r) == AdditiveF(IF reverse THEN ReversePopulation(table, r)
                           ELSE Population(table, r), table[r].observed)
        cV(r) == AdditiveVar(IF reverse THEN ReversePopulation(table, r)
                             ELSE Population(table, r), table[r].observed)
        \* the sums of the contributions that are not nan, over the rows 1..r
        fwdF[r \in 0..n] ==
            IF r = 0 THEN LogOf(ROne)
            ELSE IF IsNaN(cF(r)) THEN fwdF[r - 1] ELSE LogAdd(fwdF[r - 1], cF(r))
        fwdV[r \in 0..n] ==
            IF r = 0 THEN Fin(RZero)
            ELSE IF IsNaN(cV(r)) THEN fwdV[r - 1] ELSE FAdd(fwdV[r - 1], cV(r))
        \* and over the rows r..n, walked from the last row back
        revF[r \in 1..(n + 1)] ==
            IF r = n + 1 THEN LogOf(ROne)
            ELSE IF IsNaN(cF(r)) THEN revF[r + 1] ELSE LogAdd(revF[r + 1], cF(r))
        revV[r \in 1..(n + 1)] ==
            IF r = n + 1 THEN Fin(RZero)
            ELSE IF IsNaN(cV(r)) THEN revV[r + 1] ELSE FAdd(revV[r + 1], cV(r))
        cumF(r) == IF IsNaN(cF(r)) THEN NaN ELSE IF reverse THEN revF[r] ELSE fwdF[r]
        cumV(r) == IF IsNaN(cV(r)) THEN NaN ELSE IF reverse THEN revV[r] ELSE fwdV[r]
        \* reverse: shift(-1).fillna(0), a row carries the sum over the later rows
        estimate == [r \in 1..n |->
                        IF ~reverse THEN cumF(r)
                        ELSE IF r = n THEN LogOf(ROne) ELSE FillLog(cumF(r + 1))]
        variance == [r \in 1..n |->
                        IF ~reverse THEN cumV(r)
                        ELSE IF r = n THEN Fin(RZero) ELSE FillVar(cumV(r + 1))]
    IN  [log_estimate |-> [i \in DOMAIN tl |-> FillLog(Pad(table, estimate, tl[i]))],
         cumulative_sq |-> [i \in DOMAIN tl |-> Pad(table, variance, tl[i])]]

\* ----------------------------------------------------- degeneracy check
\* (event_table["entrance"] - event_table["removed"]).cumsum()
NetPopulation(table) ==
    LET s[k \in 0..Len(table)] ==
            IF k = 0 THEN RZero
            ELSE RAdd(s[k - 1], RSub(table[k].entrance, table[k].removed))
    IN  [r \in DOMAIN table |-> s[r]]

\* the half rounded up
HalfRowsCeil(n) == (n + 1) \div 2

\* int(n / 2)
HalfRows(n) == n \div 2

\* net_population.iloc[: int(n / 2)].min() == 0.  The minimum of an empty
\* slice is nan, which is not equal to 0.
Degenerate(table) ==
    LET net == NetPopulation(table)
        head == 1..HalfRows(Len(table))
    IN  /\ head # {}
        /\ \E r \in head : (\A q \in head : RLeq(net[r], net[q])) /\ net[r] = RZero

\* ------------------------------------------------------ confidence band
\* A confidence bound is a record [k, v, var, sgn]: "fin" (the rational v),
\* "nan", or "ci", the value exp(-exp(log(-log v) + sgn * z * sqrt(var) / log v))
\* for a point estimate 0 < v < 1, a cumulative variance var > 0 and z > 0.
CIFin(q) == [k |-> "fin", v |-> q, var |-> RZero, sgn |-> 0]
CINaN == [k |-> "nan", v |-> RZero, var |-> RZero, sgn |-> 0]
CISym(q, var, sgn) == [k |-> "ci", v |-> q, var |-> var, sgn |-> sgn]

\* np.exp(-np.exp(np.log(-v) + sgn * z * np.sqrt(cumulative_sq_) / v)) with
\* v = np.log(estimate); z = inv_normal_cdf(1 - alpha / 2) > 0 as 0 < alpha < 1
BoundValue(estimate, cumulative_sq, sgn) ==
    CASE estimate.k # "fin" -> CINaN
      [] cumulative_sq.k # "fin" \/ RLt(cumulative_sq.v, RZero) -> CINaN
      \* v = -inf: log(inf) = inf, sqrt(V) / -inf = -0, exp(-exp(inf)) = 0
      [] estimate.v = RZero -> CIFin(RZero)
      \* v = 0: log(-0.0) = -inf and sqrt(V) / 0 is nan (V = 0) or +inf
      [] estimate.v = ROne ->
            IF cumulative_sq.v = RZero \/ sgn = 1 THEN CINaN ELSE CIFin(ROne)
      \* v > 0: log of a negative number
      [] RLt(ROne, estimate.v) -> CINaN
      [] cumulative_sq.v = RZero -> CIFin(estimate.v)
      [] OTHER -> CISym(estimate.v, cumulative_sq.v, sgn)

\* a <= b for two defined bounds built from the same point estimate and the
\* same variance: as log v < 0, a positive sgn lowers the inner exponent and
\* so raises the bound
CILeq(a, b) == a.sgn <= b.sgn
CIDefined(a) == a.k # "nan"

\* the confidence level 1 - alpha, in percent
Level(alpha) == 100 - alpha

\* "%s_upper_%g" % (label, 1 - alpha) and "%s_lower_%g" % (label, 1 - alpha)
DefaultCILabels(label, alpha) ==
    << << label, "upper", Level(alpha) >>, << label, "lower", Level(alpha) >> >>

\* _bounds(cumulative_sq_, alpha, ci_labels), past its assertion: column
\* ci_labels[0] takes the "+" formula and column ci_labels[1] the "-" formula
Bounds(tl, estimate, cumulative_sq, label, alpha, ci_labels) ==
    LET names == IF IsNone(ci_labels) THEN DefaultCILabels(label, alpha) ELSE Val(ci_labels)
    IN  [index |-> tl,
         columns |-> names,
         values |-> [i \in DOMAIN tl |->
                        << BoundValue(estimate[i], cumulative_sq[i], 1),
                           BoundValue(estimate[i], cumulative_sq[i], -1) >>]]

\* assert len(ci_labels) == 2
BoundsAssertFails(ci_labels) == ~IsNone(ci_labels) /\ Len(Val(ci_labels)) # 2

\* ---------------------------------------------------------------- median
RHalf == << 1, 2 >>

\* median_survival_times(estimate, left_censorship): the first timeline point
\* at which the estimate has crossed 1/2, infinity if it never does
MedianSurvivalTimes(tl, estimate, left_censorship) ==
    LET crossed(i) ==
            /\ estimate[i].k = "fin"
            /\ IF left_censorship THEN RLeq(RHalf, estimate[i].v)
               ELSE RLeq(estimate[i].v, RHalf)
        hits == {i \in DOMAIN tl : crossed(i)}
    IN  IF hits = {} THEN PosInf ELSE Fin(RInt(tl[SetMin(hits)]))

\* ------------------------------------------------------------------ state
VARIABLES
    self,       \* the fitter instance: its attributes (None: not set)
    stamp,      \* for each result attribute, the number of the fit call that set it
    np_err,     \* numpy's process-wide error mode (np.geterr())
    warned,     \* the last call emitted a StatisticalWarning
    op,         \* the last operation: "none", "fit", "_additive_f", "_additive_var", "seterr"
    outcome,    \* how it ended: "none", "ok", "ValidationError", "StatError", "AssertionError"
    fit_args,   \* the arguments of the last fit call
    fn_args,    \* the arguments <<population, deaths>> of the last direct call
    ret,        \* the value returned by the last direct call
    nfits,      \* the number of fit calls made so far
    all_ok      \* every fit call made so far returned normally

vars == << self, stamp, np_err, warned, op, outcome, fit_args, fn_args, ret, nfits, all_ok >>

\* alpha of the constructor (default 0.05), in percent
DefaultAlpha == 5

ResultAttrs ==
    {"survival_function_", "cumulative_density_", "plot_survival_function_",
     "plot_cumulative_density_", "confidence_interval_", "median_", "event_table",
     "_cumulative_sq_"}

NoArgs ==
    [durations |-> << >>, event_observed |-> None, timeline |-> None, entry |-> None,
     label |-> "KM_estimate", alpha |-> None, left_censorship |-> FALSE,
     ci_labels |-> None, weights |-> None]

Init ==
    /\ self = [alpha |-> DefaultAlpha,
               durations |-> None, event_observed |-> None, timeline |-> None,
               entry |-> None, event_table |-> None, _label |-> None,
               survival_function_ |-> None, cumulative_density_ |-> None,
               estimate |-> None, confidence_interval_ |-> None, median_ |-> None,
               _cumulative_sq_ |-> None, _estimation_method |-> None,
               _estimate_name |-> None, _predict_label |-> None,
               plot_survival_function_ |-> None, plot_cumulative_density_ |-> None]
    /\ stamp = [a \in ResultAttrs |-> 0]
    /\ np_err = DefaultErr
    /\ warned = FALSE
    /\ op = "none"
    /\ outcome = "none"
    /\ fit_args = NoArgs
    /\ fn_args = << RZero, RZero >>
    /\ ret = NaN
    /\ nfits = 0
    /\ all_ok = TRUE

\* -------------------------------------------------------------------- fit
\* "survival_function_" if not left_censorship else "cumulative_density_"
EstimateName(left_censorship) ==
    IF left_censorship THEN "cumulative_density_" ELSE "survival_function_"

\* alpha if alpha else self.alpha
EffectiveAlpha(alpha, selfAlpha) ==
    IF IsNone(alpha) \/ alpha = Some(0) THEN selfAlpha ELSE Val(alpha)

\* "plot_" + estimate_name
PlotAlias(name) ==
    IF name = "survival_function_" THEN "plot_survival_function_"
    ELSE "plot_cumulative_density_"

\* how far a fit call with these arguments gets; pre is the result of
\* _preprocess_inputs
FitOutcome(a, pre) ==
    CASE CheckValuesFails(a.durations) -> "ValidationError"
      [] ~IsNone(a.event_observed) /\ CheckValuesFails(Val(a.event_observed)) -> "ValidationError"
      [] ~IsNone(a.entry) /\ Degenerate(pre.event_table) -> "StatError"
      [] BoundsAssertFails(a.ci_labels) -> "AssertionError"
      [] OTHER -> "ok"

\* the instance after lines 104-107 of fit
AfterPreprocess(s, a, pre) ==
    [s EXCEPT !.durations = Some(pre.durations),
              !.event_observed = Some(pre.event_observed),
              !.timeline = Some(pre.timeline),
              !.entry = pre.entry,
              !.event_table = Some(pre.event_table),
              !._label = Some(a.label)]

\* the point estimate: np.exp(log_survival_function) in a frame with the
\* single column self._label
PointEstimate(s, log_survival_function) ==
    [index |-> Val(s.timeline),
     columns |-> << Val(s._label) >>,
     values |-> [i \in DOMAIN log_survival_function |-> NpExp(log_survival_function[i])]]

\* the instance after lines 127-128 of fit
AfterEstimate(s, a, log_survival_function) ==
    LET est == PointEstimate(s, log_survival_function)
    IN  [s EXCEPT ![EstimateName(a.left_censorship)] = Some(est),
                  !.estimate = Some(est)]

\* the instance after lines 129-139 of fit
AfterBounds(s, a, cumulative_sq) ==
    LET est == Val(s.estimate)
        name == EstimateName(a.left_censorship)
    IN  [s EXCEPT !.confidence_interval_ =
                      Some(Bounds(Val(s.timeline), est.values, cumulative_sq, Val(s._label),
                                  EffectiveAlpha(a.alpha, s.alpha), a.ci_labels)),
                  !.median_ = Some(MedianSurvivalTimes(est.index, est.values, a.left_censorship)),
                  !._cumulative_sq_ = Some(cumulative_sq),
                  !._estimation_method = Some(name),
                  !._estimate_name = Some(name),
                  !._predict_label = Some(a.label),
                  ![PlotAlias(name)] = Some("plot")]

\* the attributes written up to each point of fit
PreprocessAttrs == {"event_table"}
EstimateAttrs(a) == {EstimateName(a.left_censorship)}
BoundsAttrs(a) ==
    {"confidence_interval_", "median_", "_cumulative_sq_",
     PlotAlias(EstimateName(a.left_censorship))}

Restamp(st, attrs, n) == [x \in ResultAttrs |-> IF x \in attrs THEN n ELSE st[x]]

\* KaplanMeierFitter.fit(durations, event_observed, timeline, entry, label,
\* alpha, left_censorship, ci_labels, weights)
Fit(a) ==
    \E pre \in {PreprocessInputs(a.durations, a.event_observed, a.timeline, a.entry, a.weights)} :
    \E acc \in {AdditiveEstimate(pre.event_table, pre.timeline, a.left_censorship)} :
    \E out \in {FitOutcome(a, pre)} :
    \E s1 \in {AfterPreprocess(self, a, pre)} :
    \E s2 \in {AfterEstimate(s1, a, acc.log_estimate)} :
    \E s3 \in {AfterBounds(s2, a, acc.cumulative_sq)} :
    \E n \in {nfits + 1} :
        /\ op' = "fit"
        /\ fit_args' = a
        /\ nfits' = n
        /\ outcome' = out
        /\ all_ok' = (all_ok /\ out = "ok")
        /\ UNCHANGED << fn_args, ret >>
        /\ warned' = (out # "ValidationError" /\ ~IsNone(a.weights)
                      /\ NonIntegerWeights(Val(a.weights)))
        \* _additive_estimate calls _additive_f and _additive_var
        /\ np_err' = IF out = "ValidationError" THEN np_err ELSE SetErrVar(SetErrF(np_err))
        /\ self' = CASE out = "ValidationError" -> self
                     [] out = "StatError" -> s1
                     [] out = "AssertionError" -> s2
                     [] OTHER -> s3
        /\ stamp' = CASE out = "ValidationError" -> stamp
                      [] out = "StatError" -> Restamp(stamp, PreprocessAttrs, n)
                      [] out = "AssertionError" ->
                            Restamp(stamp, PreprocessAttrs \cup EstimateAttrs(a), n)
                      [] OTHER ->
                            Restamp(stamp, PreprocessAttrs \cup EstimateAttrs(a)
                                           \cup BoundsAttrs(a), n)

\* a direct call of KaplanMeierFitter._additive_f(population, deaths)
AdditiveFCall(population, deaths) ==
    /\ op' = "_additive_f"
    /\ fn_args' = << population, deaths >>
    /\ np_err' = SetErrF(np_err)
    /\ ret' = AdditiveF(population, deaths)
    /\ outcome' = "ok"
    /\ UNCHANGED << self, stamp, warned, fit_args, nfits, all_ok >>

\* a direct call of KaplanMeierFitter._additive_var(population, deaths)
AdditiveVarCall(population, deaths) ==
    /\ op' = "_additive_var"
    /\ fn_args' = << population, deaths >>
    /\ np_err' = SetErrVar(np_err)
    /\ ret' = AdditiveVar(population, deaths)
    /\ outcome' = "ok"
    /\ UNCHANGED << self, stamp, warned, fit_args, nfits, all_ok >>

\* the caller's own np.seterr(divide=d, invalid=i)
SetErr(d, i) ==
    /\ op' = "seterr"
    /\ np_err' = [np_err EXCEPT !.divide = d, !.invalid = i]
    /\ outcome' = "ok"
    /\ UNCHANGED << self, stamp, warned, fit_args, fn_args, ret, nfits, all_ok >>

\* ----------------------------------------------------------------- inputs
Args(durs, obs, tl, ent, lab, al, lc, ci, wts) ==
    [durations |-> durs, event_observed |-> obs, timeline |-> tl, entry |-> ent,
     label |-> lab, alpha |-> al, left_censorship |-> lc, ci_labels |-> ci,
     weights |-> wts]

Times == 0..MaxTime

\* sequences of 1..MaxSubjects subjects drawn from a set of subject records,
\* listed in non-decreasing order of key (the estimate is the same for every
\* order of the subjects)
SubjectSeqs(subjects, key(_)) ==
    UNION {{f \in [1..k -> subjects] : \A i \in 1..(k - 1) : key(f[i]) <= key(f[i + 1])}
           : k \in 1..MaxSubjects}

Base == MaxTime + 1
SubjectKey(x) == (x.entry * Base + x.dur) * 2 + x.ev

\* left-truncated subjects: entry < duration
TruncatedSubjects ==
    {x \in [entry : Times, dur : Times, ev : {0, 1}] : x.entry < x.dur}
\* subjects followed from time 0
PlainSubjects == [entry : {0}, dur : Times, ev : {0, 1}]

Column(f, field(_)) == [i \in DOMAIN f |-> field(f[i])]
DurOf(x) == x.dur
EvOf(x) == x.ev
EntryOf(x) == x.entry
WeightOf(x) == x.w

FullTimeline == [i \in 1..(MaxTime + 1) |-> i - 1]

TruncatedInputs ==
    {Args(Column(f, DurOf), Some(Column(f, EvOf)), None, Some(Column(f, EntryOf)),
          "KM_estimate", None, FALSE, None, None)
     : f \in SubjectSeqs(TruncatedSubjects, SubjectKey)}

PlainInputs ==
    {Args(Column(f, DurOf), obs, tl, None, "KM_estimate", None, FALSE, None, None)
     : f \in SubjectSeqs(PlainSubjects, SubjectKey),
       obs \in {None}, tl \in {None, Some(FullTimeline)}}

CensoredInputs ==
    {Args(Column(f, DurOf), Some(Column(f, EvOf)), None, None, "KM_estimate", None,
          FALSE, None, None)
     : f \in SubjectSeqs(PlainSubjects, SubjectKey)}

WeightSet == { << 1, 2 >>, << 1, 1 >>, << 2, 1 >> }
WeightedSubjects == [entry : {0}, dur : {1, 2}, ev : {0, 1}, w : WeightSet]
WeightedKey(x) == SubjectKey(x) * 8 + x.w[1] * 2 + x.w[2]

WeightedInputs ==
    {Args(Column(f, DurOf), Some(Column(f, EvOf)), None, None, "KM_estimate", None,
          FALSE, None, Some(Column(f, WeightOf)))
     : f \in SubjectSeqs(WeightedSubjects, WeightedKey)}

EstInputs == TruncatedInputs \cup PlainInputs \cup CensoredInputs \cup WeightedInputs

\* a few data sets for repeated fits: plain, censored with an explicit
\* timeline, invalid durations, invalid event indicators, left-truncated and
\* degenerate, left-truncated and sound, weighted with a non-integer weight
LifeData ==
    { [durations |-> << 1, 2 >>, event_observed |-> None, timeline |-> None,
       entry |-> None, weights |-> None],
      [durations |-> << 2, 3, 3 >>, event_observed |-> Some(<< 1, 0, 1 >>),
       timeline |-> Some(<< 0, 1, 2, 3 >>), entry |-> None, weights |-> None],
      [durations |-> << NaNMark, 2 >>, event_observed |-> None, timeline |-> None,
       entry |-> None, weights |-> None],
      [durations |-> << 1, 2 >>, event_observed |-> Some(<< 1, NaNMark >>),
       timeline |-> None, entry |-> None, weights |-> None],
      [durations |-> << 1, 3 >>, event_observed |-> None, timeline |-> None,
       entry |-> Some(<< 0, 2 >>), weights |-> None],
      [durations |-> << 2, 3 >>, event_observed |-> None, timeline |-> None,
       entry |-> Some(<< 0, 1 >>), weights |-> None],
      [durations |-> << 1, 2 >>, event_observed |-> None, timeline |-> None,
       entry |-> None, weights |-> Some(<< << 1, 2 >>, << 1, 1 >> >>)] }

CILabelInputs ==
    { None, Some(<< << "lo" >>, << "hi" >> >>), Some(<< << "only" >> >>) }

LifeInputs ==
    {Args(d.durations, d.event_observed, d.timeline, d.entry, lab, al, lc, ci, d.weights)
     : d \in LifeData, lab \in {"KM_estimate", "A"}, al \in {None, Some(10)},
       lc \in BOOLEAN, ci \in CILabelInputs}

FnInputs ==
    {Args(d.durations, d.event_observed, d.timeline, d.entry, "KM_estimate", None,
          FALSE, None, d.weights) : d \in LifeData}

\* populations and deaths of one interval: 0 <= deaths <= population
Counts == {pd \in (0..MaxPop) \X (0..MaxPop) : pd[2] <= pd[1]}

\* ---------------------------------------------------------- specifications
\* repeated fits of one instance
FitLife == nfits < MaxFits /\ \E a \in LifeInputs : Fit(a)
Next == FitLife
Spec == Init /\ [][Next]_vars

\* one fit of a fresh instance, over every data set within the bounds
FitEst == nfits = 0 /\ \E a \in EstInputs : Fit(a)
NextEst == FitEst
SpecEst == Init /\ [][NextEst]_vars

\* the contribution functions called directly, under any error mode
FitFn == nfits = 0 /\ \E a \in FnInputs : Fit(a)
CallF == \E pd \in Counts : AdditiveFCall(RInt(pd[1]), RInt(pd[2]))
CallVar == \E pd \in Counts : AdditiveVarCall(RInt(pd[1]), RInt(pd[2]))
CallSetErr == \E d \in ErrModes : \E i \in ErrModes : SetErr(d, i)
NextFn == FitFn \/ CallF \/ CallVar \/ CallSetErr
SpecFn == Init /\ [][NextFn]_vars

\* ------------------------------------------------------------------ claims
FitDone == op = "fit" /\ outcome = "ok"
SurvivalFit == FitDone /\ ~fit_args.left_censorship

\* the values of the point estimate and of the cumulative variance, and the
\* timeline, the instance holds
Estimate == Val(self.estimate).values
Variance == Val(self._cumulative_sq_)
Timeline == Val(self.timeline)

\* the arguments of the last fit call pass validation
ArgsValid ==
    /\ ~CheckValuesFails(fit_args.durations)
    /\ IsNone(fit_args.event_observed) \/ ~CheckValuesFails(Val(fit_args.event_observed))

\* the distinct entry and exit times of the last fit call's subjects, and the
\* net population after the r-th of them: the weight of the subjects that
\* have entered by then less the weight of those that have left by then
ArgTimes ==
    {fit_args.durations[i] : i \in DOMAIN fit_args.durations}
        \cup {Val(fit_args.entry)[i] : i \in DOMAIN Val(fit_args.entry)}
ArgNet(t) ==
    LET w == SubjectWeights(fit_args.durations, fit_args.weights)
        n == Len(fit_args.durations)
    IN  RSub(RSumIf(w, {i \in 1..n : Val(fit_args.entry)[i] <= t}),
             RSumIf(w, {i \in 1..n : fit_args.durations[i] <= t}))
\* the times of the first floor(n / 2) of the n rows
EarlyTimes ==
    {t \in ArgTimes : Cardinality({u \in ArgTimes : u <= t}) <= Cardinality(ArgTimes) \div 2}

\* C1: fit raises StatError if and only if entry times were supplied and the
\* running net population reaches zero at some row among the first
\* floor(n / 2) rows of the n-row event table; with entry = None it is never
\* raised.
C1_Degeneracy ==
    op = "fit" =>
        /\ IsNone(fit_args.entry) => outcome # "StatError"
        /\ (~IsNone(fit_args.entry) /\ ArgsValid) =>
              (outcome = "StatError" <=> \E t \in EarlyTimes : ArgNet(t) = RZero)

\* a fit with entry times that raised StatError on a table of four rows or more
C1_Witness ==
    /\ op = "fit" /\ outcome = "StatError" /\ ~IsNone(fit_args.entry)
    /\ Len(Val(self.event_table)) >= 4

\* the instance attributes fit may write
InstanceFields ==
    << self.durations, self.event_observed, self.timeline, self.entry, self.event_table,
       self._label, self.survival_function_, self.cumulative_density_, self.estimate,
       self.confidence_interval_, self.median_, self._cumulative_sq_ >>

\* C2: a fit call that aborts (validation failure, degeneracy error, or
\* ci_labels not of length two) leaves every instance field with the value it
\* had before the call.
C2_AtomicOnFailure ==
    [][(nfits' = nfits + 1 /\ outcome' # "ok") => InstanceFields' = InstanceFields]_vars

\* C3: after any sequence of successful fit calls, every result attribute
\* present on the instance was produced by the most recent fit call, also
\* when the left_censorship flag differs between the calls.
C3_NoStaleResults ==
    (FitDone /\ all_ok) =>
        \A x \in ResultAttrs : ~IsNone(self[x]) => stamp[x] = nfits

AllObserved ==
    \/ IsNone(fit_args.event_observed)
    \/ \A i \in DOMAIN Val(fit_args.event_observed) : Val(fit_args.event_observed)[i] = 1

\* (number of subjects with duration > t) / (number of subjects)
EmpiricalSurvival(t) ==
    Rat(Cardinality({i \in DOMAIN fit_args.durations : fit_args.durations[i] > t}),
        Len(fit_args.durations))

\* C4: with every event observed, no entry times and unit weights, the point
\* estimate at each timeline point t equals (number of subjects with
\* duration > t) / (number of subjects).
C4_EmpiricalFraction ==
    (SurvivalFit /\ AllObserved /\ IsNone(fit_args.entry) /\ IsNone(fit_args.weights)) =>
        \A i \in DOMAIN Timeline : Estimate[i] = Fin(EmpiricalSurvival(Timeline[i]))

\* such a fit of three subjects whose estimate steps through 2/3, 1/3 and 0
C4_Witness ==
    /\ SurvivalFit /\ AllObserved /\ IsNone(fit_args.entry) /\ IsNone(fit_args.weights)
    /\ \E i \in DOMAIN Timeline : Estimate[i] = Fin(<< 2, 3 >>)
    /\ \E i \in DOMAIN Timeline : Estimate[i] = Fin(<< 1, 3 >>)
    /\ \E i \in DOMAIN Timeline : Estimate[i] = Fin(RZero)

\* C5: for every valid input, truncated and weighted data included, the
\* survival estimate is non-increasing along the timeline, every value lies in
\* [0, 1], and no timeline point carries a not-a-number value.
C5_Monotone ==
    SurvivalFit =>
        /\ \A i \in DOMAIN Estimate :
              /\ Estimate[i].k = "fin"
              /\ RLeq(RZero, Estimate[i].v) /\ RLeq(Estimate[i].v, ROne)
        /\ \A i \in DOMAIN Estimate : \A j \in DOMAIN Estimate :
              i < j => RLeq(Estimate[j].v, Estimate[i].v)

\* C6: the cumulative variance sequence produced by fit is non-negative at
\* every timeline point and non-decreasing along the timeline.
C6_VarianceMonotone ==
    FitDone =>
        /\ \A i \in DOMAIN Variance :
              Variance[i].k = "fin" /\ RLeq(RZero, Variance[i].v)
        /\ \A i \in DOMAIN Variance : \A j \in DOMAIN Variance :
              i < j => RLeq(Variance[i].v, Variance[j].v)

\* the values, along the timeline, of the column of confidence_interval_
\* named name
CIColumn(name) ==
    LET ci == Val(self.confidence_interval_)
        j == CHOOSE c \in DOMAIN ci.columns : ci.columns[c] = name
    IN  [i \in DOMAIN ci.values |-> ci.values[i][j]]

\* C7: with ci_labels a length-2 list, at every timeline point where both
\* bounds are defined the column named ci_labels[0] (the lower bound) is at
\* most the column named ci_labels[1] (the upper bound).
C7_LowerThenUpper ==
    (FitDone /\ ~IsNone(fit_args.ci_labels)) =>
        LET lower == CIColumn(Val(fit_args.ci_labels)[1])
            upper == CIColumn(Val(fit_args.ci_labels)[2])
        IN  \A i \in DOMAIN lower :
                (CIDefined(lower[i]) /\ CIDefined(upper[i])) => CILeq(lower[i], upper[i])

\* C8: _additive_var returns 0 whenever population * (population - deaths) = 0,
\* also when population = deaths = 0, and never returns an infinite or
\* not-a-number value.
C8_VarZeroDenominator ==
    op = "_additive_var" =>
        /\ ret.k = "fin"
        /\ RMul(fn_args[1], RSub(fn_args[1], fn_args[2])) = RZero => ret = Fin(RZero)

\* C9: when at some row of the event table the population at risk equals the
\* deaths (p = d > 0), _additive_f returns -infinity for that row and the point
\* estimate is 0 at that row and at every later timeline point, whatever the
\* later rows hold.
C9_ZeroFromThenOn ==
    SurvivalFit =>
        \A r \in DOMAIN Val(self.event_table) :
            LET table == Val(self.event_table)
                p == Population(table, r)
            IN  (p = table[r].observed /\ RLt(RZero, p)) =>
                    /\ AdditiveF(p, table[r].observed) = NegInf
                    /\ \A i \in DOMAIN Timeline :
                          Timeline[i] >= table[r].event_at => Estimate[i] = Fin(RZero)

\* C10: after _additive_f, _additive_var and fit return, the process-wide
\* numeric error mode equals the mode in force before the call.
C10_ErrModeRestored ==
    [][op' \in {"_additive_f", "_additive_var", "fit"} => np_err' = np_err]_vars

====
